---- MODULE Spec2Model ----
(***************************************************************************)
(* go-mysql-auto-backup: the backup loop of func main, its startup gate    *)
(* and its rotation, for the two main programs of the repository           *)
(* (src/main.go and src/unnamed/part_000).                                 *)
(*                                                                         *)
(* A path is a tuple: the backup root, the archive root, or                *)
(* filepath.Join(root, label) == <<root, label>>. The wall clock is        *)
(* counted in hours; the label of a snapshot is the calendar day of the    *)
(* clock, as time.Format("2006-01-02") gives it.                           *)
(***************************************************************************)
EXTENDS Integers, Sequences, FiniteSets, TLC

\* ------------------------------------------------------------------ bounds
MaxThreshhold == 3      \* archive_after_x is drawn from 0..MaxThreshhold
MaxInterval == 1        \* every_x_days is drawn from 0..MaxInterval
MaxCycles == 5          \* cycles that may be started in all
MaxExternal == 1        \* directories an operator removes behind the process
MaxRestarts == 1        \* times the supervisor starts the process again
CycleHours == 12        \* the longest a cycle's own steps take, in hours

\* ------------------------------------------------------- program constants
HoursPerDay == 24

Builds == {"main.go", "part_000"}
Tools == {"mysqldump", "zip", "rsync"}

VARIABLES
    build,          \* which main program runs
    Threshhold,     \* cfg.Threshhold
    DayInterval,    \* cfg.DayInterval
    lookPath,       \* the tools exec.LookPath resolves
    dataDir,        \* cfg.DataPath exists
    dirs,           \* the directories that exist: roots and snapshot directories
    files,          \* the dump files and copied data trees that exist
    archives,       \* the archival invocations that exited 0, oldest first
    now,            \* the wall clock, in hours
    pc,             \* the position of main
    count,          \* count
    backupStamps,   \* backupStamps
    backupPath,     \* backupPath of the running cycle
    idx,            \* the position of the removal loop in its slice
    cycles,         \* cycles started so far, by this process and the ones before it
    external,       \* directories removed by an operator so far
    restartedAt,    \* the clock and the cycles so far at each start after the first
    made,           \* history: the directories this run created with os.Mkdir
    batch,          \* history: backupStamps as the last rotation found it
    removed,        \* history: the paths the last rotation gave to os.RemoveAll
    skipped,        \* history: the paths the last rotation found absent and skipped
    fault           \* history: the step at which the run ended, "" while it runs

vars == <<build, Threshhold, DayInterval, lookPath, dataDir, dirs, files,
          archives, now, pc, count, backupStamps, backupPath, idx, cycles,
          external, restartedAt, made, batch, removed, skipped, fault>>

\* ------------------------------------------------------------ pure helpers
BackupPath == <<"backups">>
ArchivePath == <<"archive">>

Join(root, label) == Append(root, label)

\* the label carries the hour as well as the day
FormatHour(t) == t

Format(t) == t \div HoursPerDay

IsSnapshot(p) == Len(p) = 2

directoryExists(directory) == directory \in dirs

Range(s) == {s[k] : k \in 1..Len(s)}

Under(directory, S) == {p \in S : Len(p) >= Len(directory)
                                  /\ SubSeq(p, 1, Len(directory)) = directory}

\* os.RemoveAll(directory), and what an operator's rm -r does
RemoveAll(directory, S) == S \ Under(directory, S)

dumpFilePath(path) == Join(path, "sql")

dataBackupPath(path) == Join(path, "data")

Running == pc \notin {"fatal", "panic"}

\* the error is logged and main carries on to the sleep, to try again next cycle
FatalLogged(step) ==
    /\ pc' = "sleep"
    /\ fault' = step

\* log.Fatal / log.Fatalf at the given step
Fatal(step) ==
    /\ pc' = "fatal"
    /\ fault' = step

\* what no step of a running process changes: the configuration, the host's
\* search path and data directory, and the record of its starts
cfgVars == <<build, Threshhold, DayInterval, lookPath, dataDir, restartedAt>>

\* ----------------------------------------------------------- startup gate
checkRequirementsMain == {"mysqldump", "zip", "rsync"} \subseteq lookPath

\* the copy tool is not looked up
checkRequirementsNoRsync == {"mysqldump"} \subseteq lookPath

checkRequirementsPart == {"mysqldump", "rsync"} \subseteq lookPath

checkRequirements ==
    IF build = "main.go" THEN checkRequirementsMain ELSE checkRequirementsPart

CheckRequirements ==
    /\ pc = "gate"
    /\ IF checkRequirements
          THEN pc' = "data" /\ fault' = fault
          ELSE Fatal("requirements")
    /\ UNCHANGED <<cfgVars, dirs, files,
                   archives, now, count, backupStamps, backupPath, idx, cycles,
                   external, made, batch, removed, skipped>>

CheckDataDir ==
    /\ pc = "data"
    /\ IF dataDir
          THEN pc' = "ensureBackup" /\ fault' = fault
          ELSE Fatal("data")
    /\ UNCHANGED <<cfgVars, dirs, files,
                   archives, now, count, backupStamps, backupPath, idx, cycles,
                   external, made, batch, removed, skipped>>

\* ensureDir(directory), followed by the caller's log.Fatalf on an error
ensureDir(directory, next, step) ==
    IF directoryExists(directory)
      THEN /\ pc' = next
           /\ UNCHANGED <<dirs, made, fault>>
      ELSE \E ok \in BOOLEAN :
             IF ok
               THEN /\ dirs' = dirs \cup {directory}
                    /\ made' = made \cup {directory}
                    /\ pc' = next
                    /\ fault' = fault
               ELSE /\ Fatal(step)
                    /\ UNCHANGED <<dirs, made>>

EnsureBackupDir ==
    /\ pc = "ensureBackup"
    /\ ensureDir(BackupPath, "ensureArchive", "ensureBackup")
    /\ UNCHANGED <<cfgVars, files,
                   archives, now, count, backupStamps, backupPath, idx, cycles,
                   external, batch, removed, skipped>>

EnsureArchiveDir ==
    /\ pc = "ensureArchive"
    /\ ensureDir(ArchivePath, "loop", "ensureArchive")
    /\ UNCHANGED <<cfgVars, files,
                   archives, now, count, backupStamps, backupPath, idx, cycles,
                   external, batch, removed, skipped>>

\* ------------------------------------------------------------- the cycle
\* timestamp := time.Now(); dir := timestamp.Format(...); backupPath := Join(...)
LoopTop ==
    /\ pc = "loop"
    /\ cycles < MaxCycles
    /\ backupPath' = Join(BackupPath, Format(now))
    /\ cycles' = cycles + 1
    /\ batch' = <<>>
    /\ removed' = <<>>
    /\ skipped' = <<>>
    /\ pc' = "mkdir"
    /\ UNCHANGED <<cfgVars, dirs, files, archives, now, count, backupStamps, idx,
                   external, made, fault>>

EnsureSnapshotDir ==
    /\ pc = "mkdir"
    /\ ensureDir(backupPath, "dump", "mkdir")
    /\ UNCHANGED <<cfgVars, files, archives, now, count, backupStamps, backupPath,
                   idx, cycles, external, batch, removed, skipped>>

\* main.go: ">" and dst are arguments of mysqldump, no file is opened or written
mysqldumpMain(dst) ==
    /\ files' = files
    /\ \E ok \in BOOLEAN :
         IF ok THEN pc' = "rsync" /\ fault' = fault ELSE Fatal("mysqldump")

\* part_000: os.OpenFile(dst, O_RDWR|O_CREATE) creates the dump file, then cmd.Run()
mysqldumpPart(dst) ==
    IF ~directoryExists(SubSeq(dst, 1, Len(dst) - 1))
      THEN files' = files /\ Fatal("mysqldump")
      ELSE \E opened \in BOOLEAN :
             IF ~opened
               THEN files' = files /\ Fatal("mysqldump")
               ELSE /\ files' = files \cup {dst}
                    /\ \E ok \in BOOLEAN :
                         IF ok THEN pc' = "rsync" /\ fault' = fault
                               ELSE Fatal("mysqldump")

Mysqldump ==
    /\ pc = "dump"
    /\ IF build = "main.go" THEN mysqldumpMain(dumpFilePath(backupPath))
                            ELSE mysqldumpPart(dumpFilePath(backupPath))
    /\ UNCHANGED <<cfgVars, dirs, archives, now, count, backupStamps, backupPath,
                   idx, cycles, external, made, batch, removed, skipped>>

\* main.go: rsync -a DataPath backupPath/data; rsync does not create the parent
rsyncDataMain ==
    \E ok \in BOOLEAN :
      IF ok /\ directoryExists(backupPath)
        THEN /\ files' = files \cup {dataBackupPath(backupPath)}
             /\ dirs' = dirs
             /\ pc' = "record"
             /\ fault' = fault
        ELSE /\ Fatal("rsync")
             /\ UNCHANGED <<files, dirs>>

\* part_000: rsync -a DataPath backupPath; rsync creates the destination if absent
rsyncDataPart ==
    \E ok \in BOOLEAN :
      IF ok
        THEN /\ files' = files \cup {dataBackupPath(backupPath)}
             /\ dirs' = dirs \cup {backupPath}
             /\ pc' = "record"
             /\ fault' = fault
        ELSE /\ Fatal("rsync")
             /\ UNCHANGED <<files, dirs>>

RsyncData ==
    /\ pc = "rsync"
    /\ IF build = "main.go" THEN rsyncDataMain ELSE rsyncDataPart
    /\ UNCHANGED <<cfgVars, archives, now, count, backupStamps, backupPath,
                   idx, cycles, external, made, batch, removed, skipped>>

\* the slice the rotation archives and removes
\* main.go: backupStamps[:len(backupStamps)-2]
toRetireMain(stamps) == SubSeq(stamps, 1, Len(stamps) - 2)

\* part_000: backupStamps[:cfg.Threshhold-1]
toRetirePart(stamps) == SubSeq(stamps, 1, Threshhold - 1)

toRetire(stamps) ==
    IF build = "main.go" THEN toRetireMain(stamps) ELSE toRetirePart(stamps)

\* the comparison fires one snapshot late
thresholdReachedLate(n) == n = Threshhold + 1

\* count == cfg.Threshhold
thresholdReached(n) == n = Threshhold

\* the index is taken one element further down
indexPanicsBelowThree(stamps) == build = "main.go" /\ Len(stamps) < 3

\* main.go: backupStamps[len(backupStamps)-2] is out of range below two elements
indexPanics(stamps) == build = "main.go" /\ Len(stamps) < 2

\* backupStamps = append(backupStamps, backupPath); count++; if count == cfg.Threshhold
Record ==
    /\ pc = "record"
    /\ backupStamps' = Append(backupStamps, backupPath)
    /\ count' = count + 1
    /\ IF thresholdReached(count')
          THEN /\ batch' = backupStamps'
               /\ IF indexPanics(backupStamps')
                     THEN pc' = "panic" /\ fault' = "index"
                     ELSE pc' = "archive" /\ fault' = fault
          ELSE /\ batch' = batch
               /\ pc' = "sleep"
               /\ fault' = fault
    /\ UNCHANGED <<cfgVars, dirs, files, archives, now, backupPath, idx, cycles,
                   external, made, removed, skipped>>

\* ----------------------------------------------------------- the rotation
\* where main goes once the archival step exited 0: the removal loop or past it
EnterRemoval ==
    /\ idx' = 1
    /\ pc' = IF Len(toRetire(backupStamps)) = 0 THEN "reset" ELSE "remove"
    /\ fault' = fault

\* main.go: zip -r archive_<first>_<last>.zip backupStamps[:len-2]...
zipArchive ==
    LET first == backupStamps[1]
        last == backupStamps[Len(backupStamps) - 1]
        args == toRetireMain(backupStamps)
    IN  \E ok \in BOOLEAN :
          IF ok
            THEN /\ archives' = Append(archives,
                                       [tool |-> "zip", name |-> <<first, last>>,
                                        cycle |-> cycles, inputs |-> args,
                                        content |-> Range(args) \cap dirs])
                 /\ EnterRemoval
            ELSE /\ Fatal("archive")
                 /\ UNCHANGED <<archives, idx>>

\* part_000: rsyncData(backupPath, cfg.ArchivePath); rsync fails on a missing source
rsyncArchive ==
    \E ok \in BOOLEAN :
      IF ok /\ directoryExists(backupPath)
        THEN /\ archives' = Append(archives,
                                   [tool |-> "rsync", name |-> <<backupPath>>,
                                    cycle |-> cycles, inputs |-> <<backupPath>>,
                                    content |-> {backupPath}])
             /\ EnterRemoval
        ELSE /\ Fatal("archive")
             /\ UNCHANGED <<archives, idx>>

Archive ==
    /\ pc = "archive"
    /\ IF build = "main.go" THEN zipArchive ELSE rsyncArchive
    /\ UNCHANGED <<cfgVars, dirs, files, now, count, backupStamps, backupPath,
                   cycles, external, made, batch, removed, skipped>>

\* a directory that is not there is treated as an error
failAbsent(dir, after) ==
    /\ Fatal("remove")
    /\ UNCHANGED <<dirs, files, removed, skipped, idx>>

\* if directoryExists(dir) { ... } has no else: an absent directory is passed over
skipAbsent(dir, after) ==
    /\ skipped' = Append(skipped, dir)
    /\ idx' = idx + 1
    /\ pc' = after
    /\ UNCHANGED <<dirs, files, removed, fault>>

\* one iteration of: for _, dir := range <slice> { if directoryExists(dir) { RemoveAll } }
RemoveNext ==
    /\ pc = "remove"
    /\ LET slice == toRetire(backupStamps)
           dir == slice[idx]
           after == IF idx = Len(slice) THEN "reset" ELSE "remove"
       IN  IF directoryExists(dir)
             THEN \E ok \in BOOLEAN :
                    IF ok
                      THEN /\ dirs' = RemoveAll(dir, dirs)
                           /\ files' = RemoveAll(dir, files)
                           /\ removed' = Append(removed, dir)
                           /\ idx' = idx + 1
                           /\ pc' = after
                           /\ UNCHANGED <<skipped, fault>>
                      ELSE /\ Fatal("remove")
                           /\ UNCHANGED <<dirs, files, removed, skipped, idx>>
             ELSE skipAbsent(dir, after)
    /\ UNCHANGED <<cfgVars, archives, now, count, backupStamps, backupPath,
                   cycles, external, made, batch>>

\* the reset is followed by a continue: the sleep is skipped
ResetContinue ==
    /\ pc = "reset"
    /\ count' = 0
    /\ backupStamps' = <<>>
    /\ pc' = "loop"
    /\ UNCHANGED <<cfgVars, dirs, files, archives, now, backupPath, idx, cycles,
                   external, made, batch, removed, skipped, fault>>

\* count = 0; backupStamps = make([]string, 0)
Reset ==
    /\ pc = "reset"
    /\ count' = 0
    /\ backupStamps' = <<>>
    /\ pc' = "sleep"
    /\ UNCHANGED <<cfgVars, dirs, files, archives, now, backupPath, idx, cycles,
                   external, made, batch, removed, skipped, fault>>

\* time.Duration(cfg.DayInterval) days; a duration <= 0 returns at once
sleepHours == IF DayInterval > 0 THEN HoursPerDay * DayInterval ELSE 0

\* time.Sleep(...); the clock also advanced by what the cycle's own steps took
Sleep ==
    /\ pc = "sleep"
    /\ \E elapsed \in {0, CycleHours} : now' = now + elapsed + sleepHours
    /\ pc' = "loop"
    /\ UNCHANGED <<cfgVars, dirs, files, archives, count, backupStamps, backupPath,
                   idx, cycles, external, made, batch, removed, skipped, fault>>

\* an operator (or anything else on the host) removes a snapshot directory
ExternalRemove ==
    /\ Running
    /\ pc \notin {"gate", "data", "ensureBackup", "ensureArchive"}
    /\ external < MaxExternal
    /\ \E dir \in {d \in dirs : IsSnapshot(d)} :
         /\ dirs' = RemoveAll(dir, dirs)
         /\ files' = RemoveAll(dir, files)
    /\ external' = external + 1
    /\ UNCHANGED <<cfgVars, archives, now, pc, count, backupStamps, backupPath,
                   idx, cycles, made, batch, removed, skipped, fault>>

\* --------------------------------------------------------- specification
\* the state at "count := 0; backupStamps := make([]string, 0)" is reached by the
\* gate; the configuration is whatever json.Unmarshal read, it is not validated
Init ==
    /\ build \in Builds
    /\ Threshhold \in 0..MaxThreshhold
    /\ DayInterval \in 0..MaxInterval
    /\ lookPath \in {Tools} \cup {Tools \ {t} : t \in Tools}
    /\ dataDir \in BOOLEAN
    /\ dirs \in SUBSET {BackupPath, ArchivePath}
    /\ files = {}
    /\ archives = <<>>
    /\ now = 0
    /\ pc = "gate"
    /\ count = 0
    /\ backupStamps = <<>>
    /\ backupPath = <<>>
    /\ idx = 1
    /\ cycles = 0
    /\ external = 0
    /\ restartedAt = <<>>
    /\ made = {}
    /\ batch = <<>>
    /\ removed = <<>>
    /\ skipped = <<>>
    /\ fault = ""

Next ==
    \/ CheckRequirements
    \/ CheckDataDir
    \/ EnsureBackupDir
    \/ EnsureArchiveDir
    \/ LoopTop
    \/ EnsureSnapshotDir
    \/ Mysqldump
    \/ RsyncData
    \/ Record
    \/ Archive
    \/ RemoveNext
    \/ Reset
    \/ Sleep
    \/ ExternalRemove

Spec == Init /\ [][Next]_vars

\* the tracker is read back from where the ended process left it
RestartKeepsTracker ==
    /\ ~Running
    /\ Len(restartedAt) < MaxRestarts
    /\ \E delay \in {0, CycleHours} :
         /\ now' = now + delay
         /\ restartedAt' = Append(restartedAt, [at |-> now', cycles |-> cycles])
    /\ pc' = "gate"
    /\ backupPath' = <<>>
    /\ idx' = 1
    /\ made' = {}
    /\ batch' = <<>>
    /\ removed' = <<>>
    /\ skipped' = <<>>
    /\ fault' = ""
    /\ UNCHANGED <<build, Threshhold, DayInterval, lookPath, dataDir, dirs, files,
                   archives, cycles, external, count, backupStamps>>

\* the process ended (log.Fatal or panic) and is started again, at once or later:
\* main runs from its top, count := 0 and backupStamps := make([]string, 0); the
\* disk is as the ended process left it
Restart ==
    /\ ~Running
    /\ Len(restartedAt) < MaxRestarts
    /\ \E delay \in {0, CycleHours} :
         /\ now' = now + delay
         /\ restartedAt' = Append(restartedAt, [at |-> now', cycles |-> cycles])
    /\ pc' = "gate"
    /\ count' = 0
    /\ backupStamps' = <<>>
    /\ backupPath' = <<>>
    /\ idx' = 1
    /\ made' = {}
    /\ batch' = <<>>
    /\ removed' = <<>>
    /\ skipped' = <<>>
    /\ fault' = ""
    /\ UNCHANGED <<build, Threshhold, DayInterval, lookPath, dataDir, dirs, files,
                   archives, cycles, external>>

\* the steps of main, with nobody else touching the disk, and the restart
NextRestart ==
    \/ CheckRequirements
    \/ CheckDataDir
    \/ EnsureBackupDir
    \/ EnsureArchiveDir
    \/ LoopTop
    \/ EnsureSnapshotDir
    \/ Mysqldump
    \/ RsyncData
    \/ Record
    \/ Archive
    \/ RemoveNext
    \/ Reset
    \/ Sleep
    \/ Restart

\* the process under a supervisor that starts it again when it has ended
SpecRestart == Init /\ [][NextRestart]_vars

\* a step of main in which no call returned an error
Succeeds(A) == A /\ pc' # "fatal"

\* the runs in which every external invocation and file system operation succeeds
\* and nobody else touches the disk
NextOk ==
    \/ Succeeds(CheckRequirements)
    \/ Succeeds(CheckDataDir)
    \/ Succeeds(EnsureBackupDir)
    \/ Succeeds(EnsureArchiveDir)
    \/ Succeeds(LoopTop)
    \/ Succeeds(EnsureSnapshotDir)
    \/ Succeeds(Mysqldump)
    \/ Succeeds(RsyncData)
    \/ Succeeds(Record)
    \/ Succeeds(Archive)
    \/ Succeeds(RemoveNext)
    \/ Succeeds(Reset)
    \/ Succeeds(Sleep)

\* main is one sequential thread: when every call returns and the sleep ends, it
\* takes its next step
SpecOk == Init /\ [][NextOk]_vars /\ WF_vars(NextOk)

\* ------------------------------------------------------------- properties
\* main is inside the rotation check, or ended inside it
InRotation ==
    \/ pc \in {"archive", "remove", "reset"}
    \/ pc = "fatal" /\ fault \in {"archive", "remove"}

\* the state right after a rotation ran to its end
RotationDone == pc = "sleep" /\ batch # <<>>

AllButLast(s) == SubSeq(s, 1, Len(s) - 1)

Newest(s) == s[Len(s)]

DistinctLabels(s) == Cardinality(Range(s)) = Len(s)

SnapshotDirs == {d \in dirs : IsSnapshot(d)}

\* C1: with a threshold >= 2 the tracker and count agree, grow by exactly 1 when a
\* cycle is recorded, change in no other way than by that append or by the reset,
\* are reset only from length = threshold (and a length that reaches the threshold
\* enters the rotation at once), never exceed the threshold, and are strictly
\* below it everywhere outside the rotation check.
C1_TrackerLength ==
    [][Threshhold >= 2 =>
         /\ Len(backupStamps') = count'
         /\ Len(backupStamps') <= Threshhold
         /\ (~InRotation' => Len(backupStamps') < Threshhold)
         /\ (pc = "record" /\ pc' # "record"
                => /\ Len(backupStamps') = Len(backupStamps) + 1
                   /\ (Len(backupStamps') = Threshhold <=> pc' = "archive"))
         /\ (backupStamps' # backupStamps
                => \/ pc = "record" /\ backupStamps' = Append(backupStamps, backupPath)
                   \/ /\ pc = "reset"
                      /\ Len(backupStamps) = Threshhold
                      /\ backupStamps' = <<>>)
         /\ (pc = "reset" /\ pc' # "reset" => count' = 0 /\ backupStamps' = <<>>)
    ]_vars

\* a rotation has completed and the tracker has grown again after its reset
C1_Witness ==
    /\ Threshhold >= 2
    /\ archives # <<>>
    /\ pc = "sleep"
    /\ Len(backupStamps) = Threshhold - 1
    /\ cycles > Threshhold

\* C9: when a gate check fails (mysqldump or rsync not on the search path, or the
\* data directory missing) the run ends at the gate: it has created no directory
\* and written no file, and no cycle has started; and while the gate is running
\* no cycle has started yet.
C9_GateBeforeAnything ==
    /\ (~({"mysqldump", "rsync"} \subseteq lookPath) \/ ~dataDir)
          => /\ pc \in {"gate", "data", "fatal"}
             /\ fault \in {"", "requirements", "data"}
             /\ made = {}
             /\ files = {}
             /\ cycles = 0
             /\ backupStamps = <<>>
    /\ (pc \in {"gate", "data", "ensureBackup", "ensureArchive"}
          => cycles = 0 /\ made \subseteq {BackupPath, ArchivePath})
    /\ (cycles > 0 => {BackupPath, ArchivePath} \subseteq made \cup dirs)

\* the copy tool is missing, the run has ended at the gate and the roots were never made
C9_Witness ==
    /\ "rsync" \notin lookPath
    /\ pc = "fatal"
    /\ fault = "requirements"
    /\ dirs = {}

\* C10: in the removal loop a retired path whose directory is absent is passed over
\* without error: the run never ends in the removal step at an absent directory,
\* and a rotation that skipped a path still ends with every retired directory
\* gone, each retired path either removed or skipped, the tracker reset and main
\* back at the sleep.
C10_AbsentSkipped ==
    /\ (pc = "fatal" /\ fault = "remove"
          => directoryExists(toRetire(backupStamps)[idx]))
    /\ (pc \in {"reset", "sleep"} /\ skipped # <<>>
          => /\ batch # <<>>
             /\ fault = ""
             /\ Range(toRetire(batch)) \cap dirs = {}
             /\ Range(removed) \cup Range(skipped) = Range(toRetire(batch))
             /\ Len(removed) + Len(skipped) = Len(toRetire(batch)))
    /\ (pc = "sleep" /\ skipped # <<>> => count = 0 /\ backupStamps = <<>>)

\* a path that occurs twice in the retired slice was removed once and skipped once,
\* with nobody else touching the disk, and the rotation completed
C10_Witness ==
    /\ pc = "sleep"
    /\ external = 0
    /\ skipped # <<>>
    /\ Range(skipped) \subseteq Range(removed)
    /\ count = 0

\* the archival invocation of the rotation that just completed
LastArchive == archives[Len(archives)]

ArchivedNow == archives # <<>> /\ LastArchive.cycle = cycles

\* C2: every rotation retires (archives and deletes) exactly threshold - 1
\* snapshots, all tracked snapshots but the last, and keeps exactly the most
\* recent one as a live directory that is not part of the archive. Stated for
\* rotations over distinct labels with nobody else touching the disk.
C2_RetiresAllButNewest ==
    (RotationDone /\ external = 0 /\ DistinctLabels(batch) /\ Threshhold >= 2)
      => /\ ArchivedNow
         /\ LastArchive.inputs = AllButLast(batch)
         /\ removed = AllButLast(batch)
         /\ Len(removed) = Threshhold - 1
         /\ Newest(batch) \in dirs
         /\ Newest(batch) \notin Range(LastArchive.inputs)
         /\ Range(batch) \cap dirs = {Newest(batch)}

\* C3: right after a rotation the directory of the newest snapshot of the batch
\* still exists, and the rotation did not remove its path, whether or not labels
\* of the batch coincide. Stated with nobody else touching the disk.
C3_NewestSurvives ==
    (RotationDone /\ external = 0)
      => /\ Newest(batch) \in dirs
         /\ Newest(batch) \notin Range(removed)

\* C4: a snapshot directory is removed only after an archival invocation of the
\* same rotation that had this directory among its inputs exited 0; when the
\* archival step fails nothing is removed.
C4_RemovedOnlyIfArchived ==
    /\ (removed # <<>>
          => /\ ArchivedNow
             /\ Range(removed) \subseteq Range(LastArchive.inputs))
    /\ (pc = "fatal" /\ fault = "archive" => removed = <<>>)

\* C5: with threshold 3 and batch <<S1, S2, S3>> the rotation hands exactly
\* <<S1, S2>> to one archival invocation, removes exactly S1 and S2, leaves S3 in
\* place and the tracker empty; the archived set equals the removed set equals the
\* batch minus its newest.
C5_ThreeCycleRotation ==
    (RotationDone /\ external = 0 /\ DistinctLabels(batch) /\ Threshhold = 3)
      => /\ Cardinality({k \in 1..Len(archives) : archives[k].cycle = cycles}) = 1
         /\ LastArchive.inputs = <<batch[1], batch[2]>>
         /\ Range(removed) = {batch[1], batch[2]}
         /\ Range(LastArchive.inputs) = Range(removed)
         /\ batch[3] \in dirs
         /\ backupStamps = <<>>
         /\ count = 0

\* C6: with threshold 2 a new snapshot that has a predecessor in the tracker
\* triggers a rotation at once (main never sleeps with two tracked snapshots), and
\* that rotation retires exactly one snapshot, the predecessor: it is the one
\* input of the archival step and the one directory removed.
C6_ThresholdTwo ==
    Threshhold = 2
      => /\ (pc = "sleep" => Len(backupStamps) < 2)
         /\ (RotationDone /\ external = 0 /\ DistinctLabels(batch)
               => /\ Len(batch) = 2
                  /\ ArchivedNow
                  /\ LastArchive.inputs = <<batch[1]>>
                  /\ removed = <<batch[1]>>)

\* C7: the snapshot directories on disk stay bounded: right after a rotation at
\* most one (the newest) is left, and there are never more than threshold of them.
C7_DirectoriesBounded ==
    Threshhold >= 2
      => /\ (RotationDone /\ external = 0
               => SnapshotDirs \subseteq {Newest(batch)})
         /\ Cardinality(SnapshotDirs) <= Threshhold

\* C8: when rsync fails in a cycle whose mysqldump succeeded, the run has ended
\* with that cycle's dump file on disk and the cycle not recorded: count and the
\* tracker agree, hold fewer entries than cycles were started, do not end in a
\* path appended by this cycle's record step, and no rotation check has run.
\* Stated with nobody else touching the disk.
C8_CopyFailureLeavesDump ==
    (pc = "fatal" /\ fault = "rsync" /\ external = 0)
      => /\ dumpFilePath(backupPath) \in files
         /\ count = Len(backupStamps)
         /\ count < cycles
         /\ count < Threshhold \/ Threshhold <= 0
         /\ batch = <<>>

\* the order in which main moves from one step to the next
StepOrder ==
    {<<"gate", "data">>, <<"data", "ensureBackup">>,
     <<"ensureBackup", "ensureArchive">>, <<"ensureArchive", "loop">>,
     <<"loop", "mkdir">>, <<"mkdir", "dump">>, <<"dump", "rsync">>,
     <<"rsync", "record">>, <<"record", "archive">>, <<"record", "sleep">>,
     <<"record", "panic">>, <<"archive", "remove">>, <<"archive", "reset">>,
     <<"remove", "reset">>, <<"reset", "sleep">>, <<"sleep", "loop">>}

\* the steps that end the run through log.Fatal
FailingSteps ==
    {"gate", "data", "ensureBackup", "ensureArchive", "mkdir", "dump", "rsync",
     "archive", "remove"}

\* C11: main is at one step at a time and moves between steps only in the order
\* directory creation, export, copy, record, then either the sleep or the
\* rotation (archival, removal of every retired path in slice order, reset) and
\* then the sleep; the removal loop is passed over only for an empty slice and is
\* left only after its last element; a cycle starts only from the gate or from a
\* sleep that lasted at least the configured interval.
C11_StepsInOrder ==
    [][pc' # pc =>
         /\ \/ <<pc, pc'>> \in StepOrder
            \/ pc' = "fatal" /\ pc \in FailingSteps
         /\ (pc = "archive" /\ pc' = "reset" => toRetire(backupStamps) = <<>>)
         /\ (pc = "archive" /\ pc' = "remove" => idx' = 1)
         /\ (pc = "remove" /\ pc' = "reset"
               => idx = Len(toRetire(backupStamps)))
         /\ (pc = "sleep" => now' >= now + sleepHours /\ cycles' = cycles)
         /\ (pc' = "mkdir" => cycles' = cycles + 1)
         /\ (pc' # "mkdir" => cycles' = cycles)
    ]_vars

\* a cycle with a rotation that removed a directory has run to the end of its sleep
C11_Witness ==
    /\ pc = "loop"
    /\ cycles >= 2
    /\ removed # <<>>
    /\ backupStamps = <<>>

\* C12: once a step has failed the run is over: main is at its end and nothing
\* changes any more (no step, no append, no reset, no removal, no new cycle), and
\* the state it ended in shows that the later steps of the cycle did not run: a
\* failed creation, export or copy left the cycle unrecorded and no rotation
\* entered; a failed archival left nothing removed and the tracker not reset; a
\* failed removal left the rest of the slice untouched and the tracker not reset.
C12_FailureIsTerminal ==
    /\ [](fault # ""
            => /\ pc \in {"fatal", "panic"}
               /\ count = Len(backupStamps)
               /\ (fault \in {"requirements", "data", "ensureBackup", "ensureArchive"}
                     => cycles = 0 /\ backupStamps = <<>>)
               /\ (fault \in {"mkdir", "mysqldump", "rsync"}
                     => /\ count < cycles
                        /\ batch = <<>>
                        /\ removed = <<>>)
               /\ (fault = "mkdir" => backupPath \notin dirs)
               /\ (fault = "archive"
                     => /\ backupStamps = batch
                        /\ count = Threshhold
                        /\ removed = <<>>
                        /\ skipped = <<>>
                        /\ (archives # <<>> => LastArchive.cycle < cycles))
               /\ (fault = "remove"
                     => /\ backupStamps = batch
                        /\ count = Threshhold
                        /\ idx <= Len(toRetire(backupStamps))
                        /\ Len(removed) + Len(skipped) = idx - 1
                        /\ toRetire(backupStamps)[idx] \in dirs))
    /\ [][fault # "" => UNCHANGED vars]_vars

\* the removal step failed after an earlier directory of the slice was removed
C12_Witness ==
    /\ pc = "fatal"
    /\ fault = "remove"
    /\ removed # <<>>
    /\ backupStamps # <<>>

\* C13: the path of a cycle is the backup root joined with the calendar day of
\* its start, so a cycle that starts on the day of the cycle before it gets the
\* very same path; it then finds the directory existing and goes on without
\* creating anything or touching what is there, and its record step appends the
\* path and increments count whether or not the path is in the tracker already:
\* count is the number of entries, not of distinct paths.
C13_SameDaySamePath ==
    /\ [](/\ (pc \in {"mkdir", "dump", "rsync", "record"}
                => backupPath = <<"backups", now \div HoursPerDay>>)
          /\ count = Len(backupStamps)
          /\ \A k \in 1..Len(backupStamps) :
                /\ backupStamps[k][1] = "backups"
                /\ backupStamps[k][2] <= now \div HoursPerDay
                /\ (k > 1 => backupStamps[k - 1][2] <= backupStamps[k][2]))
    /\ [][/\ (pc = "loop" /\ pc' = "mkdir" /\ backupPath # <<>>
                 /\ now \div HoursPerDay = backupPath[2]
                => backupPath' = backupPath)
          /\ (pc = "mkdir" /\ pc' # pc /\ backupPath \in dirs
                => pc' = "dump" /\ dirs' = dirs /\ made' = made /\ files' = files)
          /\ (pc = "record" /\ pc' # pc
                => /\ backupStamps' = Append(backupStamps, backupPath)
                   /\ count' = count + 1)
       ]_vars

\* two cycles of one day are both in the tracker, under one path and one directory
C13_Witness ==
    /\ Len(backupStamps) = 2
    /\ backupStamps[1] = backupStamps[2]
    /\ count = 2
    /\ made \cap {d \in made : IsSnapshot(d)} = {backupStamps[1]}
    /\ backupStamps[1] \in dirs

\* C14: a rotation makes exactly one archive, and the two snapshots its name is
\* built from are the oldest and the newest snapshot handed to the archival step:
\* both are among its inputs, as the first and the last of them. Stated for the
\* zip archives, whose name holds two snapshots, over distinct labels.
C14_ArchiveNameIsRange ==
    (RotationDone /\ external = 0 /\ DistinctLabels(batch) /\ build = "main.go")
      => /\ Cardinality({k \in 1..Len(archives) : archives[k].cycle = cycles}) = 1
         /\ Len(LastArchive.inputs) >= 1
         /\ LastArchive.name[1] = LastArchive.inputs[1]
         /\ LastArchive.name[2] = LastArchive.inputs[Len(LastArchive.inputs)]
         /\ Range(LastArchive.name) \subseteq Range(LastArchive.inputs)

\* main is inside the for loop
InLoop ==
    pc \in {"loop", "mkdir", "dump", "rsync", "record", "archive", "remove",
            "reset", "sleep"}

\* C16: whenever main is inside the loop the rotation threshold is at least 2 and
\* the cycle interval at least 1.
C16_LoopConfigBounds ==
    InLoop => Threshhold >= 2 /\ DayInterval >= 1

\* C15: when every call succeeds, then for a threshold >= 2 main never panics,
\* count is the number of started cycles modulo the threshold whenever a cycle
\* has ended, main is inside a rotation only in a cycle whose number is a multiple
\* of the threshold and every such cycle ends with a completed rotation and an
\* empty tracker; a rotation that was entered completes, and from the start of
\* any cycle that leaves room for threshold more cycles a rotation completes.
C15_RotationEveryThreshold ==
    /\ [](Threshhold >= 2
            => /\ pc # "panic"
               /\ fault = ""
               /\ (pc \in {"sleep", "loop"}
                     => /\ count = cycles % Threshhold
                        /\ Len(archives) = cycles \div Threshhold)
               /\ (pc \in {"archive", "remove", "reset"}
                     => cycles % Threshhold = 0 /\ count = Threshhold)
               /\ (pc = "sleep" /\ cycles > 0 /\ cycles % Threshhold = 0
                     => RotationDone /\ backupStamps = <<>> /\ ArchivedNow))
    /\ ((Threshhold >= 2 /\ pc = "archive") ~> (RotationDone /\ backupStamps = <<>>))
    /\ ((Threshhold >= 2 /\ pc = "loop" /\ cycles + Threshhold <= MaxCycles)
          ~> RotationDone)

\* the second rotation of a run has completed
C15_Witness ==
    /\ Threshhold >= 2
    /\ RotationDone
    /\ Len(archives) = 2
    /\ cycles = 2 * Threshhold

Restarted == restartedAt # <<>>

\* the latest start of the process
LastStart == restartedAt[Len(restartedAt)]

\* cycles started by the running process
CyclesSince == cycles - LastStart.cycles

\* C17: a process started again after the one before it ended begins with count 0
\* and an empty tracker whatever is on disk; from then on count and the tracker
\* hold only cycles of this process (paths of the day of the restart or later),
\* count is the number of its cycles modulo the threshold whenever a cycle has
\* ended, so a rotation has just completed exactly after each threshold-th of
\* its cycles, the first one threshold cycles after the restart, and a rotation
\* looks at and removes only paths recorded by this process.
C17_RestartStartsEmpty ==
    Restarted
      => /\ count = Len(backupStamps)
         /\ count <= CyclesSince
         /\ (pc \in {"gate", "data", "ensureBackup", "ensureArchive"}
               => count = 0 /\ backupStamps = <<>> /\ CyclesSince = 0)
         /\ \A k \in 1..Len(backupStamps) :
               backupStamps[k][2] >= LastStart.at \div HoursPerDay
         /\ (Threshhold >= 1 /\ pc \in {"sleep", "loop"}
               => count = CyclesSince % Threshhold)
         /\ (Threshhold >= 1 /\ pc = "sleep"
               => (batch # <<>>
                     <=> CyclesSince > 0 /\ CyclesSince % Threshhold = 0))
         /\ (batch # <<>>
               => /\ Len(batch) = Threshhold
                  /\ CyclesSince >= Threshhold
                  /\ Range(removed) \cup Range(skipped) \subseteq Range(batch)
                  /\ \A k \in 1..Len(batch) :
                        batch[k][2] >= LastStart.at \div HoursPerDay)

\* the first rotation after a restart has completed, threshold cycles after it,
\* and a snapshot directory of a day before the restart is still on disk
C17_Witness ==
    /\ Restarted
    /\ Threshhold >= 2
    /\ RotationDone
    /\ CyclesSince = Threshhold
    /\ \E d \in SnapshotDirs :
         d \notin Range(batch) /\ d[2] < LastStart.at \div HoursPerDay

====
